---------------------------- MODULE Spec2Model ----------------------------
(***************************************************************************)
(* A model of lyric_tracker.py: the LRC parser (LyricParser.parse_lrc),    *)
(* the position resolver (LyricParser.get_current_lyric) and the polling   *)
(* loop of main().                                                         *)
(*                                                                         *)
(* Times are integers in milliseconds.  Every time the parser builds is    *)
(* int + k/100.0 or int + k/1000.0; for the tags of TagSet two such floats *)
(* are equal, or ordered, exactly as their millisecond values are, so the  *)
(* integer stands for the float.  Texts are sequences of characters.  An   *)
(* Optional value is a sequence of length at most one: None is <<>>.       *)
(***************************************************************************)
EXTENDS Integers, Sequences, FiniteSets, TLC

VARIABLES
    \* ---- LyricParser.parse_lrc / get_current_lyric, run on their own ----
    ppc,            \* position in the parser run
    nlines,         \* number of lines of lrc_text consumed so far
    line,           \* the line of the last loop iteration (<<>> before the first)
    parse_lyrics,   \* parse_lrc's local `lyrics`
    emitted,        \* history: the entries in the order they were appended
    unique_lyrics,  \* parse_lrc's local `unique_lyrics`
    timeline,       \* the caller's copy of the returned list
    current_time,   \* get_current_lyric's argument (<<>> until called)
    resolved,       \* get_current_lyric's result (<<>> until called)
    \* ---- main() ----
    pc,             \* position in the loop body
    current_song,   \* Optional SongInfo
    lyrics,         \* main's `lyrics`
    translations,   \* main's `translations`
    total_time,     \* Optional duration
    last_update_time,
    song_info,      \* Optional SongInfo probed this tick
    netease_id,     \* Optional identifier found this tick
    position,       \* Optional position probed this tick
    interrupted,    \* KeyboardInterrupt was delivered
    fetched,        \* Optional (new_lyrics, new_translations) of this tick
    clock,          \* time.time(), in clock units of 0.1 s
    cfg,            \* the AppConfig load_config returned
    \* ---- observation of main(): what a run did ----
    playing,        \* Optional return value of is_playing() this tick
    prev_playing,   \* Optional return value of is_playing() on the tick before
    calls,          \* how often each collaborator was called since the tick began
    tick_start,     \* the Session as it was when the tick began
    rendered,       \* Optional arguments of this tick's display_lyrics call
    last_render,    \* Optional clock of the latest display_lyrics call
    render_gap      \* Optional clock distance of this tick's display_lyrics call
                    \* from the one before it

parser_vars == <<ppc, nlines, line, parse_lyrics, emitted, unique_lyrics,
                 timeline, current_time, resolved>>
main_vars == <<pc, current_song, lyrics, translations, total_time, last_update_time,
               song_info, netease_id, position, interrupted, fetched, clock, cfg,
               playing, prev_playing, calls, tick_start, rendered, last_render,
               render_gap>>
vars == <<ppc, nlines, line, parse_lyrics, emitted, unique_lyrics,
          timeline, current_time, resolved,
          pc, current_song, lyrics, translations, total_time, last_update_time,
          song_info, netease_id, position, interrupted, fetched, clock, cfg,
          playing, prev_playing, calls, tick_start, rendered, last_render,
          render_gap>>

None == <<>>
Some(x) == <<x>>

-----------------------------------------------------------------------------
(* Bounds of the model *)

\* lines of one lrc_text
MaxLines == 2
\* timestamp tags on one line
MaxTags == 2
\* the last clock value of a run of main(), in clock units of 0.1 s
MaxClock == 6
\* the longest a get_position call takes, in clock units
MaxCallDelay == 1

-----------------------------------------------------------------------------
(* Input alphabet of the parser *)

\* A timestamp tag as time_pattern matches it: the three groups, as digit strings.
\* [00:01]
TagPlain == [minutes |-> <<0, 0>>, seconds |-> <<0, 1>>, milliseconds |-> <<>>]
\* [00:01.004]
TagMilli == [minutes |-> <<0, 0>>, seconds |-> <<0, 1>>, milliseconds |-> <<0, 0, 4>>]
\* [01:00.50]
TagCenti == [minutes |-> <<0, 1>>, seconds |-> <<0, 0>>, milliseconds |-> <<5, 0>>]

TagSet == {TagPlain, TagMilli, TagCenti}

\* What follows the last tag of a line, before stripping.
RawTexts == { <<" ">>, <<"A">>, <<" ", "B", " ">> }

RECURSIVE SeqsUpTo(_, _)
SeqsUpTo(S, n) ==
    IF n = 0 THEN { <<>> }
    ELSE LET shorter == SeqsUpTo(S, n - 1)
         IN  shorter \cup { Append(s, x) : s \in {t \in shorter : Len(t) = n - 1}, x \in S }

\* A line is the list of time_pattern's matches on it and the text after the last
\* match (the whole line when there is no match).  A malformed tag is no match.
Lines == [time_matches : SeqsUpTo(TagSet, MaxTags), rest : RawTexts]

-----------------------------------------------------------------------------
(* LyricParser.parse_lrc *)

\* int() of a digit string
RECURSIVE ToInt(_)
ToInt(digits) ==
    IF digits = <<>> THEN 0
    ELSE 10 * ToInt(SubSeq(digits, 1, Len(digits) - 1)) + digits[Len(digits)]

\* str.strip(): drop leading and trailing blanks
RECURSIVE LStrip(_)
LStrip(s) == IF s # <<>> /\ Head(s) = " " THEN LStrip(Tail(s)) ELSE s

RECURSIVE RStrip(_)
RStrip(s) ==
    IF s # <<>> /\ s[Len(s)] = " " THEN RStrip(SubSeq(s, 1, Len(s) - 1)) ELSE s

Strip(s) == RStrip(LStrip(s))

\* the fraction with every digit string divided by 100.0
FractionMs_AlwaysCenti(milliseconds) ==
    IF milliseconds = <<>> THEN 0
    ELSE (ToInt(milliseconds) * 1000) \div 100

\* The fraction of a tag in milliseconds: int(ms)/100.0 for two digits,
\* int(ms)/1000.0 for three, nothing when the group is absent.
FractionMs(milliseconds) ==
    IF milliseconds = <<>> THEN 0
    ELSE IF Len(milliseconds) = 2
         THEN (ToInt(milliseconds) * 1000) \div 100
         ELSE (ToInt(milliseconds) * 1000) \div 1000

\* time_seconds of one match, in milliseconds
TimeSeconds(match) ==
    (ToInt(match.minutes) * 60 + ToInt(match.seconds)) * 1000
        + FractionMs(match.milliseconds)

\* the inner loop: one LyricLine per match, appended only when text is non-empty
RECURSIVE EmitMatches(_, _)
EmitMatches(time_matches, text) ==
    IF time_matches = <<>> THEN <<>>
    ELSE (IF text # <<>>
          THEN << [time |-> TimeSeconds(Head(time_matches)), text |-> text] >>
          ELSE <<>>)
         \o EmitMatches(Tail(time_matches), text)

\* one iteration of the loop over the lines
EmitLine(l) ==
    IF l.time_matches # <<>>
    THEN EmitMatches(l.time_matches, Strip(l.rest))
    ELSE <<>>

\* list.sort(key=lambda x: x.time): stable, ascending
RECURSIVE InsertByTime(_, _)
InsertByTime(sorted, e) ==
    IF sorted = <<>> THEN <<e>>
    ELSE IF sorted[Len(sorted)].time <= e.time THEN Append(sorted, e)
    ELSE Append(InsertByTime(SubSeq(sorted, 1, Len(sorted) - 1), e), sorted[Len(sorted)])

RECURSIVE SortByTime(_)
SortByTime(s) ==
    IF s = <<>> THEN <<>>
    ELSE InsertByTime(SortByTime(SubSeq(s, 1, Len(s) - 1)), s[Len(s)])

\* round(t, 2) on the float closest to the decimal: to the nearest hundredth, and
\* a tie (a time ending in 5 ms) goes by the float's binary value.  HalfRoundsUp lists the ties
\* below 1100 ms that CPython rounds up; TagSet holds no tie.
HalfRoundsUp == {5, 25, 35, 55, 65, 85, 95, 115, 135, 165, 195, 225, 255, 265, 275,
                 315, 325, 335, 375, 385, 395, 405, 445, 455, 465, 505, 515, 525,
                 535, 545, 555, 635, 645, 655, 665, 675, 685, 755, 765, 775, 785,
                 795, 805, 875, 885, 895, 905, 915, 925, 935}

TimeKey(t) ==
    IF t % 10 = 5
    THEN (IF t \in HalfRoundsUp THEN t \div 10 + 1 ELSE t \div 10)
    ELSE (t + 5) \div 10

\* the dedup loop with the exact time as the key
RECURSIVE DedupReversed_ExactTime(_, _, _)
DedupReversed_ExactTime(sorted, seen_times, acc) ==
    IF sorted = <<>> THEN acc
    ELSE LET lyric == sorted[Len(sorted)]
             rest == SubSeq(sorted, 1, Len(sorted) - 1)
         IN  IF lyric.time \notin seen_times
             THEN DedupReversed_ExactTime(rest, seen_times \cup {lyric.time},
                                          Append(acc, lyric))
             ELSE DedupReversed_ExactTime(rest, seen_times, acc)

\* the dedup loop over reversed(lyrics): keep the first entry seen per time_key
RECURSIVE DedupReversed(_, _, _)
DedupReversed(sorted, seen_times, acc) ==
    IF sorted = <<>> THEN acc
    ELSE LET lyric == sorted[Len(sorted)]
             time_key == TimeKey(lyric.time)
             rest == SubSeq(sorted, 1, Len(sorted) - 1)
         IN  IF time_key \notin seen_times
             THEN DedupReversed(rest, seen_times \cup {time_key}, Append(acc, lyric))
             ELSE DedupReversed(rest, seen_times, acc)

\* lines 266-281: sort, dedup over the reversed list, sort again
UniqueLyrics(sorted) == SortByTime(DedupReversed(sorted, {}, <<>>))

RECURSIVE EmitAll(_)
EmitAll(lrc_lines) ==
    IF lrc_lines = <<>> THEN <<>>
    ELSE EmitLine(Head(lrc_lines)) \o EmitAll(Tail(lrc_lines))

\* parse_lrc as a function of the lines of lrc_text
ParseLrc(lrc_lines) == UniqueLyrics(SortByTime(EmitAll(lrc_lines)))

-----------------------------------------------------------------------------
(* LyricParser.get_current_lyric *)

\* the loop with < in place of <=
RECURSIVE ScanBack_Strict(_, _, _)
ScanBack_Strict(lrc, t, i) ==
    IF i = 0 THEN 0
    ELSE IF lrc[i].time < t THEN i
    ELSE ScanBack_Strict(lrc, t, i - 1)

\* the loop from the last index down, leaving at the first entry whose time is
\* <= current_time: the index found, or 0
RECURSIVE ScanBack(_, _, _)
ScanBack(lrc, t, i) ==
    IF i = 0 THEN 0
    ELSE IF lrc[i].time <= t THEN i
    ELSE ScanBack(lrc, t, i - 1)

\* the pair (current_lyric, next_lyric)
GetCurrentLyric(lrc, t) ==
    IF lrc = <<>> THEN [current |-> None, next |-> None]
    ELSE LET i == ScanBack(lrc, t, Len(lrc))
         IN  IF i # 0
             THEN [current |-> Some(lrc[i].text),
                   next |-> IF i + 1 <= Len(lrc) THEN Some(lrc[i + 1].text) ELSE None]
             ELSE [current |-> None, next |-> Some(lrc[1].text)]

-----------------------------------------------------------------------------
(* The parser and the resolver run on their own: parse_lrc on any text of   *)
(* at most MaxLines lines, then get_current_lyric on what it returned.      *)

\* playback positions handed to get_current_lyric, in milliseconds
Positions == {-500, 0, 1000, 1002, 1004, 60500, 99000}

\* one iteration of `for line in lrc_text.strip().split('\n')`; stripping the
\* whole text changes no match and no stripped rest of a line
ReadLine ==
    /\ ppc = "lines"
    /\ nlines < MaxLines
    /\ \E l \in Lines :
        /\ line' = Some(l)
        /\ parse_lyrics' = parse_lyrics \o EmitLine(l)
        /\ emitted' = emitted \o EmitLine(l)
    /\ nlines' = nlines + 1
    /\ UNCHANGED <<ppc, unique_lyrics, timeline, current_time, resolved>>
    /\ UNCHANGED main_vars

\* after the last line: lyrics.sort, the dedup loop, unique_lyrics.sort
SortAndDedup ==
    /\ ppc = "lines"
    /\ parse_lyrics' = SortByTime(parse_lyrics)
    /\ unique_lyrics' = UniqueLyrics(SortByTime(parse_lyrics))
    /\ ppc' = "done"
    /\ UNCHANGED <<nlines, line, emitted, timeline, current_time, resolved>>
    /\ UNCHANGED main_vars

\* return unique_lyrics: the locals are gone, the caller holds the list
ReturnLyrics ==
    /\ ppc = "done"
    /\ timeline' = unique_lyrics
    /\ ppc' = "returned"
    /\ nlines' = 0
    /\ line' = None
    /\ parse_lyrics' = <<>>
    /\ emitted' = <<>>
    /\ unique_lyrics' = <<>>
    /\ UNCHANGED <<current_time, resolved>>
    /\ UNCHANGED main_vars

\* get_current_lyric(timeline, p)
Resolve ==
    /\ ppc = "returned"
    /\ \E p \in Positions :
        /\ current_time' = Some(p)
        /\ resolved' = Some(GetCurrentLyric(timeline, p))
    /\ ppc' = "resolved"
    /\ UNCHANGED <<nlines, line, parse_lyrics, emitted, unique_lyrics, timeline>>
    /\ UNCHANGED main_vars

-----------------------------------------------------------------------------
(* The collaborators of main(): what each may return *)

\* get_metadata's SongInfo values; netease_id is the dataclass default
Songs == { [title |-> "T1", artist |-> "A1", netease_id |-> None],
           [title |-> "T1", artist |-> "A2", netease_id |-> None],
           [title |-> "T2", artist |-> "A1", netease_id |-> None] }

\* identifiers search_song may return
Ids == {1, 2, 3}

\* data['data']['lrc'] of each identifier, as lines; the second line of the
\* first has a malformed tag, the text of the third is blank
LrcText(id) ==
    CASE id = 1 -> << [time_matches |-> <<TagPlain>>, rest |-> <<"A">>],
                      [time_matches |-> <<>>, rest |-> <<"B">>],
                      [time_matches |-> <<TagCenti>>, rest |-> <<" ", "B", " ">>] >>
      [] id = 2 -> << [time_matches |-> <<TagMilli>>, rest |-> <<"B">>] >>
      [] OTHER  -> << [time_matches |-> <<TagPlain>>, rest |-> <<" ">>] >>

\* data['data']['trans'] of each identifier; '' for the second
TransText(id) ==
    CASE id = 2 -> <<>>
      [] OTHER  -> << [time_matches |-> <<TagPlain>>, rest |-> <<"B">>] >>

\* fetch_lyrics: (None, None) after any failure, else both texts parsed
FetchFailed == [new_lyrics |-> None, new_translations |-> None]

FetchParsed(id) ==
    [new_lyrics |-> Some(IF LrcText(id) # <<>> THEN ParseLrc(LrcText(id)) ELSE <<>>),
     new_translations |->
         Some(IF TransText(id) # <<>> THEN ParseLrc(TransText(id)) ELSE <<>>)]

\* the parsed lyrics of every identifier, computed once
FetchParsedById == [id \in Ids |-> FetchParsed(id)]

FetchLyricsResults(id) == {FetchFailed, FetchParsedById[id]}

\* get_length's values, in seconds
Durations == {180}

\* get_position's values, in milliseconds
MainPositions == {0, 1002}

\* AppConfig's loop intervals, in clock units of 0.1 s
\* the defaults, and a display redrawn less often than the player is polled
Configs == { [poll_interval |-> 1, render_interval |-> 1],
             [poll_interval |-> 1, render_interval |-> 3] }

\* time.sleep(0.5), in clock units
IdleSleep == 5

Collaborators == {"is_playing", "get_metadata", "search_song", "fetch_lyrics",
                  "get_length", "get_position", "display_lyrics"}

Called(cs) == [c \in Collaborators |-> IF c \in cs THEN calls[c] + 1 ELSE calls[c]]

Option(S) == {None} \cup {Some(x) : x \in S}

\* `is not None` in place of truthiness
Truthy_NotNone(opt) == opt # None

\* truthiness of an Optional list
Truthy(opt) == opt # None /\ opt[1] # <<>>

Session == [current_song |-> current_song, lyrics |-> lyrics,
            translations |-> translations, total_time |-> total_time]

-----------------------------------------------------------------------------
(* main(): the loop body, one action per step *)

\* line 601: the top of the loop.  The temporaries of the last tick are dead here.
IsPlaying ==
    /\ pc = "is_playing"
    /\ \E status \in {"playing", "paused", "unavailable"} :
        /\ playing' = Some(status = "playing")
        /\ prev_playing' = playing
        /\ pc' = IF status = "playing" THEN "get_metadata" ELSE "sleep_idle"
    /\ calls' = [c \in Collaborators |-> IF c = "is_playing" THEN 1 ELSE 0]
    /\ tick_start' = Session
    /\ song_info' = None
    /\ netease_id' = None
    /\ position' = None
    /\ fetched' = None
    /\ rendered' = None
    /\ render_gap' = None
    /\ UNCHANGED <<current_song, lyrics, translations, total_time, last_update_time,
                   interrupted, clock, cfg, last_render>>
    /\ UNCHANGED parser_vars

\* the idle sleep with the current song forgotten
SleepIdle_ClearsSession ==
    /\ pc = "sleep_idle"
    /\ clock + IdleSleep <= MaxClock
    /\ clock' = clock + IdleSleep
    /\ pc' = "is_playing"
    /\ current_song' = None
    /\ UNCHANGED <<lyrics, translations, total_time, last_update_time,
                   song_info, netease_id, position, interrupted, fetched, cfg,
                   playing, prev_playing, calls, tick_start, rendered, last_render,
                   render_gap>>
    /\ UNCHANGED parser_vars

\* lines 602 and 609: time.sleep(0.5); continue
SleepIdle ==
    /\ pc = "sleep_idle"
    /\ clock + IdleSleep <= MaxClock
    /\ clock' = clock + IdleSleep
    /\ pc' = "is_playing"
    /\ UNCHANGED <<current_song, lyrics, translations, total_time, last_update_time,
                   song_info, netease_id, position, interrupted, fetched, cfg,
                   playing, prev_playing, calls, tick_start, rendered, last_render,
                   render_gap>>
    /\ UNCHANGED parser_vars

\* lines 608-610: if not song_info: sleep, continue
AfterMetadata_NoGuard(m) == "check_song"

AfterMetadata(m) == IF m = None THEN "sleep_idle" ELSE "check_song"

\* lines 606-610
GetMetadata ==
    /\ pc = "get_metadata"
    /\ \E m \in Option(Songs) :
        /\ song_info' = m
        /\ pc' = AfterMetadata(m)
    /\ calls' = Called({"get_metadata"})
    /\ UNCHANGED <<current_song, lyrics, translations, total_time, last_update_time,
                   netease_id, position, interrupted, fetched, clock, cfg,
                   playing, prev_playing, tick_start, rendered, last_render, render_gap>>
    /\ UNCHANGED parser_vars

\* the condition of line 613
SongChanged_WholeRecord(cur, info) ==
    \/ cur = None
    \/ cur[1] # info

SongChanged(cur, info) ==
    \/ cur = None
    \/ cur[1].title # info.title
    \/ cur[1].artist # info.artist

\* line 613; song_info.title of None raises, which the handler of line 668 ends
\* with sys.exit(1)
CheckSong ==
    /\ pc = "check_song"
    /\ pc' = IF song_info = None THEN "fatal"
             ELSE IF SongChanged(current_song, song_info[1]) THEN "search_song"
             ELSE "get_position"
    /\ UNCHANGED <<current_song, lyrics, translations, total_time, last_update_time,
                   song_info, netease_id, position, interrupted, fetched, clock, cfg,
                   playing, prev_playing, calls, tick_start, rendered, last_render,
                   render_gap>>
    /\ UNCHANGED parser_vars

\* the search with lines 636-637 left out: no identifier, the old lists stay
SearchSong_KeepsLyrics ==
    /\ pc = "search_song"
    /\ \E found \in Option(Ids) :
        /\ netease_id' = found
        /\ IF found # None
           THEN /\ song_info' = Some([song_info[1] EXCEPT !.netease_id = found])
                /\ pc' = "fetch_lyrics"
           ELSE /\ pc' = "set_current"
                /\ UNCHANGED song_info
    /\ calls' = Called({"search_song"})
    /\ UNCHANGED <<current_song, lyrics, translations, total_time, last_update_time,
                   position, interrupted, fetched, clock, cfg,
                   playing, prev_playing, tick_start, rendered, last_render, render_gap>>
    /\ UNCHANGED parser_vars

\* lines 617-623 and 634-637
SearchSong ==
    /\ pc = "search_song"
    /\ \E found \in Option(Ids) :
        /\ netease_id' = found
        /\ IF found # None
           THEN /\ song_info' = Some([song_info[1] EXCEPT !.netease_id = found])
                /\ pc' = "fetch_lyrics"
                /\ UNCHANGED <<lyrics, translations>>
           ELSE /\ lyrics' = <<>>
                /\ translations' = <<>>
                /\ pc' = "set_current"
                /\ UNCHANGED song_info
    /\ calls' = Called({"search_song"})
    /\ UNCHANGED <<current_song, total_time, last_update_time,
                   position, interrupted, fetched, clock, cfg,
                   playing, prev_playing, tick_start, rendered, last_render, render_gap>>
    /\ UNCHANGED parser_vars

\* lines 624-633
FetchLyrics ==
    /\ pc = "fetch_lyrics"
    /\ \E got \in FetchLyricsResults(netease_id[1]) :
        /\ fetched' = Some(got)
        /\ IF Truthy(got.new_lyrics)
           THEN /\ lyrics' = got.new_lyrics[1]
                /\ translations' = got.new_translations[1]
           ELSE /\ lyrics' = <<>>
                /\ translations' = <<>>
    /\ pc' = "set_current"
    /\ calls' = Called({"fetch_lyrics"})
    /\ UNCHANGED <<current_song, total_time, last_update_time,
                   song_info, netease_id, position, interrupted, clock, cfg,
                   playing, prev_playing, tick_start, rendered, last_render, render_gap>>
    /\ UNCHANGED parser_vars

\* lines 639-641
SetCurrent ==
    /\ pc = "set_current"
    /\ current_song' = song_info
    /\ \E length \in Option(Durations) : total_time' = length
    /\ last_update_time' = clock
    /\ pc' = "get_position"
    /\ calls' = Called({"get_length"})
    /\ UNCHANGED <<lyrics, translations,
                   song_info, netease_id, position, interrupted, fetched, clock, cfg,
                   playing, prev_playing, tick_start, rendered, last_render, render_gap>>
    /\ UNCHANGED parser_vars

\* the position probe with line 645 reduced to `if current_song is not None`
GetPosition_AlwaysLength ==
    /\ pc = "get_position"
    /\ \E p \in Option(MainPositions) :
        /\ position' = p
        /\ pc' = IF p # None THEN "render" ELSE "sleep_poll"
    /\ \E d \in 0..MaxCallDelay :
        /\ clock + d <= MaxClock
        /\ clock' = clock + d
    /\ IF current_song # None
       THEN /\ \E length \in Option(Durations) : total_time' = length
            /\ calls' = Called({"get_position", "get_length"})
       ELSE /\ UNCHANGED total_time
            /\ calls' = Called({"get_position"})
    /\ UNCHANGED <<current_song, lyrics, translations, last_update_time,
                   song_info, netease_id, interrupted, fetched, cfg,
                   playing, prev_playing, tick_start, rendered, last_render, render_gap>>
    /\ UNCHANGED parser_vars

\* lines 644-648; the playerctl call takes up to MaxCallDelay
GetPosition ==
    /\ pc = "get_position"
    /\ \E p \in Option(MainPositions) :
        /\ position' = p
        /\ pc' = IF p # None THEN "render" ELSE "sleep_poll"
    /\ \E d \in 0..MaxCallDelay :
        /\ clock + d <= MaxClock
        /\ clock' = clock + d
    /\ IF total_time = None /\ current_song # None
       THEN /\ \E length \in Option(Durations) : total_time' = length
            /\ calls' = Called({"get_position", "get_length"})
       ELSE /\ UNCHANGED total_time
            /\ calls' = Called({"get_position"})
    /\ UNCHANGED <<current_song, lyrics, translations, last_update_time,
                   song_info, netease_id, interrupted, fetched, cfg,
                   playing, prev_playing, tick_start, rendered, last_render, render_gap>>
    /\ UNCHANGED parser_vars

\* the condition of line 655
RenderDue_Always(now, last, interval) == TRUE

RenderDue(now, last, interval) == now - last >= interval

\* the redraw with line 661 moved out of the `if`: the timer restarts on every
\* tick that has a position
Render_StampsEveryPoll ==
    /\ pc = "render"
    /\ LET primary == GetCurrentLyric(lyrics, position[1])
           trans == GetCurrentLyric(translations, position[1])
       IN  IF RenderDue(clock, last_update_time, cfg.render_interval)
           THEN /\ rendered' = Some([current_lyric |-> primary.current,
                                     current_trans |-> trans.current,
                                     next_lyric |-> primary.next,
                                     next_trans |-> trans.next,
                                     song_info |-> current_song,
                                     position |-> position[1],
                                     total_time |-> total_time])
                /\ last_render' = Some(clock)
                /\ render_gap' = IF last_render = None THEN None
                                 ELSE Some(clock - last_render[1])
                /\ calls' = Called({"display_lyrics"})
           ELSE UNCHANGED <<rendered, last_render, render_gap, calls>>
    /\ last_update_time' = clock
    /\ pc' = "sleep_poll"
    /\ UNCHANGED <<current_song, lyrics, translations, total_time,
                   song_info, netease_id, position, interrupted, fetched, clock, cfg,
                   playing, prev_playing, tick_start>>
    /\ UNCHANGED parser_vars

\* lines 650-661
Render ==
    /\ pc = "render"
    /\ LET primary == GetCurrentLyric(lyrics, position[1])
           trans == GetCurrentLyric(translations, position[1])
       IN  IF RenderDue(clock, last_update_time, cfg.render_interval)
           THEN /\ rendered' = Some([current_lyric |-> primary.current,
                                     current_trans |-> trans.current,
                                     next_lyric |-> primary.next,
                                     next_trans |-> trans.next,
                                     song_info |-> current_song,
                                     position |-> position[1],
                                     total_time |-> total_time])
                /\ last_update_time' = clock
                /\ last_render' = Some(clock)
                /\ render_gap' = IF last_render = None THEN None
                                 ELSE Some(clock - last_render[1])
                /\ calls' = Called({"display_lyrics"})
           ELSE UNCHANGED <<rendered, last_update_time, last_render, render_gap, calls>>
    /\ pc' = "sleep_poll"
    /\ UNCHANGED <<current_song, lyrics, translations, total_time,
                   song_info, netease_id, position, interrupted, fetched, clock, cfg,
                   playing, prev_playing, tick_start>>
    /\ UNCHANGED parser_vars

\* line 663
SleepPoll ==
    /\ pc = "sleep_poll"
    /\ clock + cfg.poll_interval <= MaxClock
    /\ clock' = clock + cfg.poll_interval
    /\ pc' = "is_playing"
    /\ UNCHANGED <<current_song, lyrics, translations, total_time, last_update_time,
                   song_info, netease_id, position, interrupted, fetched, cfg,
                   playing, prev_playing, calls, tick_start, rendered, last_render,
                   render_gap>>
    /\ UNCHANGED parser_vars

\* lines 665-667: KeyboardInterrupt, at any point of the loop
Interrupt ==
    /\ pc \notin {"exited", "fatal", "off"}
    /\ pc' = "exited"
    /\ interrupted' = TRUE
    /\ UNCHANGED <<current_song, lyrics, translations, total_time, last_update_time,
                   song_info, netease_id, position, fetched, clock, cfg,
                   playing, prev_playing, calls, tick_start, rendered, last_render,
                   render_gap>>
    /\ UNCHANGED parser_vars

-----------------------------------------------------------------------------
(* Specifications *)

ParserOff ==
    /\ ppc = "off"
    /\ nlines = 0
    /\ line = None
    /\ parse_lyrics = <<>>
    /\ emitted = <<>>
    /\ unique_lyrics = <<>>
    /\ timeline = <<>>
    /\ current_time = None
    /\ resolved = None

\* lines 592-596
MainStart(config, at) ==
    /\ pc = at
    /\ current_song = None
    /\ lyrics = <<>>
    /\ translations = <<>>
    /\ total_time = None
    /\ last_update_time = 0
    /\ song_info = None
    /\ netease_id = None
    /\ position = None
    /\ interrupted = FALSE
    /\ fetched = None
    /\ clock = 0
    /\ cfg = config
    /\ playing = None
    /\ prev_playing = None
    /\ calls = [c \in Collaborators |-> 0]
    /\ tick_start = [current_song |-> None, lyrics |-> <<>>,
                     translations |-> <<>>, total_time |-> None]
    /\ rendered = None
    /\ last_render = None
    /\ render_gap = None

\* main() under any configuration
Init ==
    /\ ParserOff
    /\ \E config \in Configs : MainStart(config, "is_playing")

Next ==
    \/ IsPlaying
    \/ SleepIdle
    \/ GetMetadata
    \/ CheckSong
    \/ SearchSong
    \/ FetchLyrics
    \/ SetCurrent
    \/ GetPosition
    \/ Render
    \/ SleepPoll
    \/ Interrupt

Spec == Init /\ [][Next]_vars

Later(a, b) == IF a >= b THEN a ELSE b

\* main() reads time.time() only in the difference of line 655, so at the top
\* of the loop the clock may restart at 0 with every stored time moved back by
\* as much.  A stored time more than MaxClock in the past is kept at MaxClock
\* in the past, which is no less than any render_interval of Configs.
Rebase ==
    /\ pc = "is_playing"
    /\ clock > 0
    /\ clock' = 0
    /\ last_update_time' = Later(last_update_time - clock, 0 - MaxClock)
    /\ last_render' = IF last_render = None THEN None
                      ELSE Some(Later(last_render[1] - clock, 0 - MaxClock))
    /\ UNCHANGED <<pc, current_song, lyrics, translations, total_time,
                   song_info, netease_id, position, interrupted, fetched, cfg,
                   playing, prev_playing, calls, tick_start, rendered, render_gap>>
    /\ UNCHANGED parser_vars

\* the loop running without end and without KeyboardInterrupt, the clock
\* restarted at the top of every iteration
NextLive ==
    \/ clock = 0 /\ IsPlaying
    \/ SleepIdle
    \/ GetMetadata
    \/ CheckSong
    \/ SearchSong
    \/ FetchLyrics
    \/ SetCurrent
    \/ GetPosition
    \/ Render
    \/ SleepPoll
    \/ Rebase

\* Every call of the loop body returns (each has a timeout) and every sleep
\* ends, so the single thread always takes its next step.
SpecLive == Init /\ [][NextLive]_vars /\ WF_vars(NextLive)

\* parse_lrc on any text, then get_current_lyric on its result
ParseInit ==
    /\ ppc = "lines"
    /\ nlines = 0
    /\ line = None
    /\ parse_lyrics = <<>>
    /\ emitted = <<>>
    /\ unique_lyrics = <<>>
    /\ timeline = <<>>
    /\ current_time = None
    /\ resolved = None
    /\ MainStart([poll_interval |-> 1, render_interval |-> 1], "off")

ParseNext ==
    \/ ReadLine
    \/ SortAndDedup
    \/ ReturnLyrics
    \/ Resolve

SpecParse == ParseInit /\ [][ParseNext]_vars

-----------------------------------------------------------------------------
(* Claims about the parser and the resolver, checked under SpecParse *)

\* the indices of tl whose time is at most t
AtOrBefore(tl, t) == {i \in 1..Len(tl) : tl[i].time <= t}

\* C1: for every timeline parse_lrc returns and every position, current is the
\* text of the last entry whose time is <= position and next the text of the
\* entry right after it (none after the final entry); with no such entry current
\* is none and next is the first entry's text; the empty timeline gives
\* (none, none).
C1_ResolveContract ==
    ppc = "resolved" =>
        LET t == current_time[1]
            r == resolved[1]
            S == AtOrBefore(timeline, t)
        IN  IF timeline = <<>> THEN r.current = None /\ r.next = None
            ELSE IF S = {} THEN r.current = None /\ r.next = Some(timeline[1].text)
            ELSE LET i == CHOOSE k \in S : \A j \in S : j <= k
                 IN  /\ r.current = Some(timeline[i].text)
                     /\ r.next = IF i < Len(timeline)
                                 THEN Some(timeline[i + 1].text) ELSE None

\* a position exactly on the first of two entries: both current and next exist
C1_Witness ==
    /\ ppc = "resolved"
    /\ Len(timeline) = 2
    /\ current_time[1] = timeline[1].time
    /\ resolved[1].current = Some(timeline[1].text)
    /\ resolved[1].next = Some(timeline[2].text)

\* the index of the last emitted entry whose rounded time is key
LastEmitted(key) ==
    CHOOSE i \in 1..Len(emitted) :
        /\ TimeKey(emitted[i].time) = key
        /\ \A j \in 1..Len(emitted) : TimeKey(emitted[j].time) = key => j <= i

\* C2: dedup is last-wins in file order: for every rounded time among the emitted
\* entries the returned list holds exactly one entry, and its text is that of the
\* last emitted entry with that rounded time.
C2_LastWinsInFileOrder ==
    ppc = "done" =>
        \A key \in {TimeKey(emitted[i].time) : i \in 1..Len(emitted)} :
            LET kept == {j \in 1..Len(unique_lyrics) :
                            TimeKey(unique_lyrics[j].time) = key}
            IN  /\ Cardinality(kept) = 1
                /\ \A j \in kept : unique_lyrics[j].text = emitted[LastEmitted(key)].text

\* strictly increasing times and no two entries with one rounded time
StrictlyIncreasing(tl) ==
    \A i, j \in 1..Len(tl) :
        i < j => /\ tl[i].time < tl[j].time
                 /\ TimeKey(tl[i].time) # TimeKey(tl[j].time)

\* C3: the list parse_lrc returns has strictly increasing times, and no two of
\* its entries round to the same hundredth of a second.
C3_TimelineInvariant ==
    /\ ppc = "done" => StrictlyIncreasing(unique_lyrics)
    /\ ppc \in {"returned", "resolved"} => StrictlyIncreasing(timeline)

\* two entries were kept after entries of one rounded time and different exact
\* times were emitted
C3_Witness ==
    /\ ppc = "done"
    /\ Len(unique_lyrics) = 2
    /\ \E i, j \in 1..Len(emitted) :
        /\ emitted[i].time # emitted[j].time
        /\ TimeKey(emitted[i].time) = TimeKey(emitted[j].time)

\* the time of a tag as the rule states it, in milliseconds
RuleTagTime(tag) ==
    ToInt(tag.minutes) * 60000 + ToInt(tag.seconds) * 1000
        + (CASE Len(tag.milliseconds) = 2 -> ToInt(tag.milliseconds) * 10
             [] Len(tag.milliseconds) = 3 -> ToInt(tag.milliseconds)
             [] OTHER -> 0)

\* what the rule says a line emits
RuleEmits(l) ==
    IF Len(l.time_matches) >= 1 /\ Strip(l.rest) # <<>>
    THEN [i \in 1..Len(l.time_matches) |->
             [time |-> RuleTagTime(l.time_matches[i]), text |-> Strip(l.rest)]]
    ELSE <<>>

\* C4: a line with k >= 1 tags and a non-blank text after the last tag emits
\* exactly k entries, one per tag in order, each at its tag's time and all with
\* the stripped text; a line with a blank text or with no tag emits nothing; no
\* entry ever has an empty text.
C4_EmissionRule ==
    /\ [][(ppc = "lines" /\ nlines' = nlines + 1)
            => emitted' = emitted \o RuleEmits(line'[1])]_vars
    /\ [](\A tl \in {emitted, parse_lyrics, unique_lyrics, timeline} :
            \A i \in 1..Len(tl) : tl[i].text # <<>>)

\* a line with a three-digit and a two-digit tag and a padded text was read
C4_Witness ==
    /\ ppc = "lines"
    /\ line # None
    /\ line[1].time_matches = <<TagMilli, TagCenti>>
    /\ line[1].rest = <<" ", "B", " ">>
    /\ Len(emitted) = 2

-----------------------------------------------------------------------------
(* Claims about main(), checked under Spec *)

\* the probed identity is the one the Session held when the tick began
SameTrack(cur, info) ==
    /\ cur # None
    /\ info # None
    /\ cur[1].title = info[1].title
    /\ cur[1].artist = info[1].artist

Rebuilt == calls["search_song"] > 0 \/ calls["fetch_lyrics"] > 0

\* C5: song resolution and lyric retrieval are invoked only on a tick that
\* probed an identity and either found no current song or found the title or
\* the artist different from the current one; on a tick whose identity equals
\* the current one neither is invoked, whatever the last rebuild found.
C5_RebuildOnlyOnChange ==
    Rebuilt =>
        /\ song_info # None
        /\ \/ tick_start.current_song = None
           \/ tick_start.current_song[1].title # song_info[1].title
           \/ tick_start.current_song[1].artist # song_info[1].artist

\* a tick on the current track, whose last rebuild found no lyrics, reached its
\* sleep with a position probed and nothing resolved or retrieved
C5_Witness ==
    /\ pc = "sleep_poll"
    /\ SameTrack(tick_start.current_song, song_info)
    /\ tick_start.lyrics = <<>>
    /\ calls["get_position"] = 1
    /\ ~Rebuilt

\* the tick has rebuilt and is past line 641
AfterRebuild ==
    /\ calls["search_song"] > 0
    /\ pc \in {"get_position", "render", "sleep_poll"}

\* C6 as amended: a rebuild that finds no identifier, or whose retrieval returns
\* nothing or an empty primary list, leaves both lists empty; any other rebuild
\* stores the two retrieved lists, the translation list empty when no
\* translation text was returned; either way the probed identity is current.
C6_RebuildOutcome ==
    AfterRebuild =>
        /\ current_song = song_info
        /\ SameTrack(current_song, song_info)
        /\ IF \/ netease_id = None
              \/ fetched = None
              \/ fetched[1] = FetchFailed
              \/ fetched[1].new_lyrics[1] = <<>>
           THEN lyrics = <<>> /\ translations = <<>>
           ELSE /\ lyrics = fetched[1].new_lyrics[1]
                /\ translations = fetched[1].new_translations[1]
                /\ TransText(netease_id[1]) = <<>> => translations = <<>>

\* C6 as stated: only a missing identifier or a retrieval that returns nothing
\* leaves both lists empty; every other rebuild stores the retrieved lists.
C6_AsStated ==
    AfterRebuild =>
        /\ current_song = song_info
        /\ IF netease_id = None \/ fetched = None \/ fetched[1] = FetchFailed
           THEN lyrics = <<>> /\ translations = <<>>
           ELSE /\ lyrics = fetched[1].new_lyrics[1]
                /\ translations = fetched[1].new_translations[1]

\* a retrieval returned an empty primary list and a translation: both lists
\* were emptied, over a Session that held lyrics
C6_Witness ==
    /\ AfterRebuild
    /\ fetched # None
    /\ fetched[1] # FetchFailed
    /\ fetched[1].new_lyrics[1] = <<>>
    /\ fetched[1].new_translations[1] # <<>>
    /\ tick_start.lyrics # <<>>
    /\ lyrics = <<>>
    /\ translations = <<>>

\* C7: two consecutive display_lyrics calls are at least render_interval apart,
\* however many polls lie between them, and display_lyrics is called only on a
\* tick that probed playing, an identity and a position.
C7_RenderCadence ==
    /\ render_gap # None => render_gap[1] >= cfg.render_interval
    /\ rendered # None =>
        /\ playing = Some(TRUE)
        /\ song_info # None
        /\ position # None

\* polled every unit, redrawn every three: the second redraw came three units
\* after the first
C7_Witness ==
    /\ cfg.poll_interval = 1
    /\ cfg.render_interval = 3
    /\ rendered # None
    /\ render_gap = Some(3)

\* the tick found the player not playing and has reached, or finished, its sleep
Suspended ==
    /\ playing = Some(FALSE)
    /\ pc \in {"sleep_idle", "is_playing"}

\* C8: on a tick where is_playing() is false the Session is what it was when
\* the tick began, display_lyrics is not called and no collaborator but
\* is_playing is called; a tick that follows on the same track does not rebuild.
C8_SuspendFrame ==
    /\ Suspended =>
        /\ Session = tick_start
        /\ rendered = None
        /\ calls = [c \in Collaborators |-> IF c = "is_playing" THEN 1 ELSE 0]
    /\ (prev_playing = Some(FALSE) /\ SameTrack(tick_start.current_song, song_info))
        => ~Rebuilt

\* a Session with lyrics went through a not-playing tick and its sleep
C8_Witness ==
    /\ Suspended
    /\ pc = "is_playing"
    /\ current_song # None
    /\ lyrics # <<>>
    /\ total_time # None

\* C9: whatever the collaborators fail to return, the loop never takes the
\* fatal exit of line 668, and it ends only by KeyboardInterrupt.
C9_LoopTotal ==
    /\ pc # "fatal"
    /\ pc = "exited" => interrupted

\* a tick with no identifier, no duration and no position reached its sleep
C9_Witness ==
    /\ pc = "sleep_poll"
    /\ calls["search_song"] = 1
    /\ netease_id = None
    /\ total_time = None
    /\ position = None

\* the two lists a rebuild stores for an identifier: the retrieved ones, or
\* empty ones
StoredFor(id) ==
    {[lyrics |-> <<>>, translations |-> <<>>]}
    \cup (IF id = None \/ ~Truthy(FetchParsed(id[1]).new_lyrics) THEN {}
          ELSE {[lyrics |-> FetchParsed(id[1]).new_lyrics[1],
                 translations |-> FetchParsed(id[1]).new_translations[1]]})

\* C10: whenever display_lyrics is called, it shows the identity probed on this
\* tick, and the lines it is given are resolved against the lists the rebuild
\* for that identity stored (the ones retrieved for its identifier, or empty
\* ones), never against another track's lists.
C10_RebuildBeforeRender ==
    rendered # None =>
        LET r == rendered[1]
        IN  /\ SameTrack(r.song_info, song_info)
            /\ Rebuilt => r.song_info = song_info
            /\ \E st \in StoredFor(r.song_info[1].netease_id) :
                LET primary == GetCurrentLyric(st.lyrics, r.position)
                    trans == GetCurrentLyric(st.translations, r.position)
                IN  /\ r.current_lyric = primary.current
                    /\ r.next_lyric = primary.next
                    /\ r.current_trans = trans.current
                    /\ r.next_trans = trans.next

\* a tick that replaced a Session holding lyrics by another track's lyrics drew
\* the display
C10_Witness ==
    /\ rendered # None
    /\ Rebuilt
    /\ tick_start.lyrics # <<>>
    /\ lyrics # <<>>
    /\ lyrics # tick_start.lyrics
    /\ rendered[1].next_lyric # None

\* the tick is on the track the Session held when it began
SameTrackTick == SameTrack(tick_start.current_song, song_info)

\* C11 as amended: get_length is queried on a rebuild (line 640) and, when that
\* query returned nothing, once more in the same tick (line 646); on any other
\* tick it is queried at most once, and only while the stored duration is
\* unknown; a known duration is neither queried for again nor changed until a
\* rebuild; on a same-track tick the only Session field that may change is the
\* duration, from unknown to known.
C11_DurationPolicy ==
    /\ [][calls'["get_length"] > calls["get_length"]
            => \/ pc = "set_current"
               \/ pc = "get_position" /\ total_time = None]_vars
    /\ [][(total_time # None /\ total_time' # total_time) => pc = "set_current"]_vars
    /\ [](calls["get_length"] <= 2)
    /\ [](calls["get_length"] = 2 => Rebuilt)
    /\ [](Rebuilt /\ pc \in {"get_position", "render", "sleep_poll"}
            => calls["get_length"] >= 1)
    /\ [](SameTrackTick =>
            /\ current_song = tick_start.current_song
            /\ lyrics = tick_start.lyrics
            /\ translations = tick_start.translations
            /\ total_time = tick_start.total_time \/ tick_start.total_time = None
            /\ tick_start.total_time # None => calls["get_length"] = 0)

\* C11 as stated: on a tick that rebuilds, get_length is queried once; any
\* further attempt waits for a later tick.
C11_AsStated ==
    Rebuilt => calls["get_length"] <= 1

\* a rebuild whose first query returned nothing got the duration from the second
\* query of the same tick
C11_Witness ==
    /\ Rebuilt
    /\ calls["get_length"] = 2
    /\ total_time # None
    /\ pc = "sleep_poll"

-----------------------------------------------------------------------------
(* Claims about runs of main() without end, checked under SpecLive *)

\* the tick found the player not playing, no identity or no position
BadTick ==
    \/ pc = "sleep_idle"
    \/ pc = "sleep_poll" /\ position = None

\* C12 as amended: if from some tick on every tick finds the player playing,
\* probes the identity the Session already holds (so that no rebuild restarts
\* the render timer) and reads a position, then display_lyrics is called again
\* and again.  Stated as its equivalent: again and again there is a redraw, a
\* tick without playing, identity or position, or a rebuild.
C12_RedrawnWithoutRebuild ==
    []<>(rendered # None \/ BadTick \/ Rebuilt)

\* C12 as stated: if from some tick on every tick finds the player playing,
\* probes an identity and reads a position, then display_lyrics is called again
\* and again, also when identities change and rebuilds restart the render timer.
C12_AsStated ==
    []<>(rendered # None \/ BadTick)

\* a second redraw on the current track, after polls that did not redraw
C12_Witness ==
    /\ rendered # None
    /\ SameTrackTick
    /\ cfg.poll_interval < cfg.render_interval
    /\ render_gap # None
    /\ clock < last_update_time + cfg.render_interval

=============================================================================
